---- MODULE Spec2Model ----
(***************************************************************************)
(* Model of Server_Tools.py: the two CRUD dispatchers sqlserver_crud       *)
(* (Customers, MySQL) and postgresql_crud (products, PostgreSQL), the      *)
(* tables seed_databases creates, and the connections each call opens.     *)
(***************************************************************************)
EXTENDS Integers, Sequences, FiniteSets, TLC

\* ------------------------------------------------------------------ bounds
MaxCalls == 3
NProcs == 2

\* ------------------------------------------------------- Python values
\* An optional argument is None or a value: <<>> or <<v>>.
None == <<>>

Some(v) == <<v>>

\* `not x` is False: a string that is neither None nor "".
TruthyStr(x) == x # None /\ x[1] # ""

\* `not x` is False: an int that is neither None nor 0.
TruthyInt(x) == x # None /\ x[1] # 0

Digit == <<"0", "1", "2", "3", "4", "5", "6", "7", "8", "9">>

RECURSIVE IntStr(_)
\* str(n) of an f-string, n >= 0
IntStr(n) == IF n < 10 THEN Digit[n + 1] ELSE IntStr(n \div 10) \o Digit[(n % 10) + 1]

\* datetime.isoformat(): the timestamp as text
IsoFormat(t) == "T" \o IntStr(t)

\* the check mark (U+2705) that starts a success message
OkMark == "OK"

\* the cross mark (U+274C) that starts an error message
ErrMark == "ERR"

\* a result that is a str: its leading marker, then the rest of the text
Str(tokens) == [type |-> "str", val |-> tokens]

\* a result that is a list of row records
List(rows) == [type |-> "list", val |-> rows]

\* ------------------------------------------------------- configuration
MYSQL_DB == "shop"

PG_SCHEMA == "public"

\* ------------------------------------------------------- statement texts
SQL_CUSTOMER_INSERT == "INSERT INTO Customers (Name, Email) VALUES (%s, %s)"

SQL_CUSTOMER_SELECT == "SELECT Id, Name, Email, CreatedAt FROM Customers ORDER BY Id ASC"

SQL_CUSTOMER_UPDATE == "UPDATE Customers SET Email = %s WHERE Id = %s"

SQL_CUSTOMER_DELETE == "DELETE FROM Customers WHERE Id = %s"

SQL_CUSTOMER_DESCRIBE == "SELECT COLUMN_NAME, DATA_TYPE, IS_NULLABLE, CHARACTER_MAXIMUM_LENGTH FROM INFORMATION_SCHEMA.COLUMNS WHERE TABLE_SCHEMA = %s AND TABLE_NAME = %s"

SQL_PRODUCT_INSERT == "INSERT INTO products (name, price, description) VALUES (%s, %s, %s)"

SQL_PRODUCT_SELECT == "SELECT id, name, price, description FROM products ORDER BY id ASC"

SQL_PRODUCT_UPDATE == "UPDATE products SET price = %s WHERE id = %s"

SQL_PRODUCT_DELETE_ID == "DELETE FROM products WHERE id = %s"

SQL_PRODUCT_DELETE_NAME == "DELETE FROM products WHERE name = %s"

SQL_PRODUCT_DESCRIBE == "SELECT column_name, data_type, is_nullable, character_maximum_length FROM information_schema.columns WHERE table_name = %s"

\* ------------------------------------------------------- the stores
\* INFORMATION_SCHEMA.COLUMNS of the MySQL server: the Customers table that
\* seed_databases creates in MYSQL_DB, and the tables of another database.
MySqlColumns ==
    << [schema |-> MYSQL_DB, table |-> "Customers", column |-> "Id", type |-> "int", nullable |-> "NO", max_length |-> None],
       [schema |-> MYSQL_DB, table |-> "Customers", column |-> "Name", type |-> "varchar", nullable |-> "NO", max_length |-> Some(100)],
       [schema |-> MYSQL_DB, table |-> "Customers", column |-> "Email", type |-> "varchar", nullable |-> "NO", max_length |-> Some(100)],
       [schema |-> MYSQL_DB, table |-> "Customers", column |-> "CreatedAt", type |-> "timestamp", nullable |-> "YES", max_length |-> None],
       [schema |-> "legacy", table |-> "Customers", column |-> "LegacyCode", type |-> "char", nullable |-> "YES", max_length |-> Some(8)],
       [schema |-> "legacy", table |-> "orders", column |-> "OrderNo", type |-> "int", nullable |-> "NO", max_length |-> None] >>

\* information_schema.columns of the PostgreSQL database: the products table
\* that seed_databases creates in the default schema, and another schema's tables.
PgColumns ==
    << [schema |-> PG_SCHEMA, table |-> "products", column |-> "id", type |-> "integer", nullable |-> "NO", max_length |-> None],
       [schema |-> PG_SCHEMA, table |-> "products", column |-> "name", type |-> "text", nullable |-> "NO", max_length |-> None],
       [schema |-> PG_SCHEMA, table |-> "products", column |-> "price", type |-> "numeric", nullable |-> "NO", max_length |-> None],
       [schema |-> PG_SCHEMA, table |-> "products", column |-> "description", type |-> "text", nullable |-> "YES", max_length |-> None],
       [schema |-> "legacy", table |-> "products", column |-> "sku", type |-> "character varying", nullable |-> "YES", max_length |-> Some(8)],
       [schema |-> "legacy", table |-> "orders", column |-> "order_no", type |-> "integer", nullable |-> "NO", max_length |-> None] >>

\* Customers after seed_databases
SeedCustomers ==
    { [Id |-> 1, Name |-> "Alice", Email |-> "alice@example.com", CreatedAt |-> 0],
      [Id |-> 2, Name |-> "Bob", Email |-> "bob@example.com", CreatedAt |-> 0] }

\* products after seed_databases
SeedProducts ==
    { [id |-> 1, name |-> "Widget", price |-> 999, description |-> Some("A standard widget.")],
      [id |-> 2, name |-> "Gadget", price |-> 1499, description |-> Some("A useful gadget.")] }

MaxOf(S) == CHOOSE m \in S : \A x \in S : x <= m

\* a flawed key generator: one more than the largest key the statement can see
NextIdFromVisibleRows(seq, ids) == IF ids = {} THEN 1 ELSE MaxOf(ids) + 1

\* a flawed key generator: the smallest key no visible row has
NextIdReusesFreedKeys(seq, ids) == CHOOSE n \in 1..(Cardinality(ids) + 1) : n \notin ids

\* AUTO_INCREMENT / SERIAL: the key of the next inserted row is the counter's value
NextId(seq, ids) == seq

RECURSIVE Ascending(_)
\* the keys of a table in ascending order
Ascending(ids) ==
    IF ids = {} THEN <<>>
    ELSE LET m == CHOOSE x \in ids : \A y \in ids : x <= y
         IN <<m>> \o Ascending(ids \ {m})

CustomerIds(rows) == {r.Id : r \in rows}

ProductIds(rows) == {r.id : r \in rows}

\* SELECT ... FROM Customers ORDER BY Id ASC
CustomersOrderById(rows) ==
    LET ids == Ascending(CustomerIds(rows))
    IN [i \in 1..Len(ids) |-> CHOOSE r \in rows : r.Id = ids[i]]

\* the rows in descending order of id
ProductsOrderByIdDesc(rows) ==
    LET ids == Ascending(ProductIds(rows))
    IN [i \in 1..Len(ids) |-> CHOOSE r \in rows : r.id = ids[Len(ids) + 1 - i]]

\* SELECT ... FROM products ORDER BY id ASC
ProductsOrderById(rows) ==
    LET ids == Ascending(ProductIds(rows))
    IN [i \in 1..Len(ids) |-> CHOOSE r \in rows : r.id = ids[i]]

\* a WHERE comparison with a bound parameter: never true of a NULL parameter
SqlEq(column, param) == param # None /\ column = param[1]

\* cur.execute(sql, params) on a MySQL connection opened with autocommit=True:
\* the Customers rows, the AUTO_INCREMENT counter and the fetched rows afterwards.
\* A statement the server rejects changes nothing.
MySqlExecute(sql, params, rows, seq, now) ==
    CASE sql = SQL_CUSTOMER_INSERT ->
           IF params[1] = None \/ params[2] = None
           THEN [rows |-> rows, seq |-> seq, fetch |-> <<>>]
           ELSE LET id == NextId(seq, CustomerIds(rows))
                IN [rows |-> rows \cup {[Id |-> id, Name |-> params[1][1],
                                         Email |-> params[2][1], CreatedAt |-> now]},
                    seq |-> id + 1, fetch |-> <<>>]
      [] sql = SQL_CUSTOMER_SELECT ->
           [rows |-> rows, seq |-> seq, fetch |-> CustomersOrderById(rows)]
      [] sql = SQL_CUSTOMER_UPDATE ->
           [rows |-> {IF SqlEq(r.Id, params[2]) /\ params[1] # None
                      THEN [r EXCEPT !.Email = params[1][1]] ELSE r : r \in rows},
            seq |-> seq, fetch |-> <<>>]
      [] sql = SQL_CUSTOMER_DELETE ->
           [rows |-> {r \in rows : ~SqlEq(r.Id, params[1])}, seq |-> seq, fetch |-> <<>>]
      [] sql = SQL_CUSTOMER_DESCRIBE ->
           [rows |-> rows, seq |-> seq,
            fetch |-> SelectSeq(MySqlColumns,
                                LAMBDA c : SqlEq(c.schema, params[1]) /\ SqlEq(c.table, params[2]))]
      [] OTHER -> [rows |-> rows, seq |-> seq, fetch |-> <<>>]

\* cur.execute(sql, params) on a PostgreSQL connection: the products rows the
\* transaction sees, the SERIAL sequence and the fetched rows afterwards.
PgExecute(sql, params, rows, seq) ==
    CASE sql = SQL_PRODUCT_INSERT ->
           IF params[1] = None \/ params[2] = None
           THEN [rows |-> rows, seq |-> seq, fetch |-> <<>>]
           ELSE LET id == NextId(seq, ProductIds(rows))
                IN [rows |-> rows \cup {[id |-> id, name |-> params[1][1],
                                         price |-> params[2][1], description |-> params[3]]},
                    seq |-> id + 1, fetch |-> <<>>]
      [] sql = SQL_PRODUCT_SELECT ->
           [rows |-> rows, seq |-> seq, fetch |-> ProductsOrderById(rows)]
      [] sql = SQL_PRODUCT_UPDATE ->
           [rows |-> {IF SqlEq(r.id, params[2]) /\ params[1] # None
                      THEN [r EXCEPT !.price = params[1][1]] ELSE r : r \in rows},
            seq |-> seq, fetch |-> <<>>]
      [] sql = SQL_PRODUCT_DELETE_ID ->
           [rows |-> {r \in rows : ~SqlEq(r.id, params[1])}, seq |-> seq, fetch |-> <<>>]
      [] sql = SQL_PRODUCT_DELETE_NAME ->
           [rows |-> {r \in rows : ~SqlEq(r.name, params[1])}, seq |-> seq, fetch |-> <<>>]
      [] sql = SQL_PRODUCT_DESCRIBE ->
           [rows |-> rows, seq |-> seq,
            fetch |-> SelectSeq(PgColumns, LAMBDA c : SqlEq(c.table, params[1]))]
      [] OTHER -> [rows |-> rows, seq |-> seq, fetch |-> <<>>]

\* ------------------------------------------------------- the dispatchers
\* an error result that starts with the success marker
ErrorResultWithOkMark(text) == Str(<<OkMark, text>>)

\* return {"sql": None, "result": "<error marker> <text>"}
ErrorResult(text) == Str(<<ErrMark, text>>)

\* a path that returns before any statement is built; close: cnxn.close() is called
Rejected(text, close) ==
    [sql |-> None, params |-> <<>>, result |-> ErrorResult(text), fetch |-> "none",
     commit |-> FALSE, close |-> close]

\* a path that executes one statement; fetch names the rows the result is built from
Statement(sql, params, tokens, fetch, commit, close) ==
    [sql |-> Some(sql), params |-> params, result |-> Str(<<OkMark>> \o tokens),
     fetch |-> fetch, commit |-> commit, close |-> close]

\* create: the INSERT and its bound parameters, then commit
CustomerInsert(name, email) ==
    Statement(SQL_CUSTOMER_INSERT, <<name, email>>,
              <<"Customer '", name[1], "' added.">>, "none", TRUE, FALSE)

\* read: the SELECT of the whole table; limit is not used
CustomerSelect(limit) ==
    Statement(SQL_CUSTOMER_SELECT, <<>>, <<>>, "customers", FALSE, FALSE)

\* update: the UPDATE and its bound parameters, then commit
CustomerUpdate(customer_id, new_email) ==
    Statement(SQL_CUSTOMER_UPDATE, <<new_email, customer_id>>,
              <<"Customer id=", IntStr(customer_id[1]), " updated.">>, "none", TRUE, FALSE)

\* delete: the DELETE and its bound parameter, then commit
CustomerDelete(customer_id) ==
    Statement(SQL_CUSTOMER_DELETE, <<customer_id>>,
              <<"Customer id=", IntStr(customer_id[1]), " deleted.">>, "none", TRUE, FALSE)

\* describe: the columns query, bound to MYSQL_DB and the table name
CustomerDescribe(table_name) ==
    Statement(SQL_CUSTOMER_DESCRIBE, <<Some(MYSQL_DB), table_name>>, <<>>,
              "columns", FALSE, FALSE)

\* the branch sqlserver_crud takes: the statement and its bound parameters, or the
\* error; no branch closes the connection
sqlserver_plan(operation, name, email, limit, customer_id, new_email, table_name) ==
    CASE operation = "create" ->
           IF ~TruthyStr(name) \/ ~TruthyStr(email)
           THEN Rejected("'name' and 'email' required for create.", FALSE)
           ELSE CustomerInsert(name, email)
      [] operation = "read" -> CustomerSelect(limit)
      [] operation = "update" ->
           IF ~TruthyInt(customer_id) \/ ~TruthyStr(new_email)
           THEN Rejected("'customer_id' and 'new_email' required for update.", FALSE)
           ELSE CustomerUpdate(customer_id, new_email)
      [] operation = "delete" ->
           IF ~TruthyInt(customer_id)
           THEN Rejected("'customer_id' required for delete.", FALSE)
           ELSE CustomerDelete(customer_id)
      [] operation = "describe" ->
           IF ~TruthyStr(table_name)
           THEN Rejected("'table_name' required for describe.", FALSE)
           ELSE CustomerDescribe(table_name)
      [] OTHER -> Rejected("Unknown operation '" \o operation \o "'.", FALSE)

\* create: the INSERT and its bound parameters, commit, close
ProductInsert(name, price, description) ==
    Statement(SQL_PRODUCT_INSERT, <<name, price, description>>,
              <<"Product '", name[1], "' added.">>, "none", TRUE, TRUE)

\* read: the SELECT of the whole table, close; limit is not used
ProductSelect(limit) ==
    Statement(SQL_PRODUCT_SELECT, <<>>, <<>>, "products", FALSE, TRUE)

\* an UPDATE whose two parameters are bound in the wrong order
ProductUpdateParamsSwapped(product_id, new_price) ==
    Statement(SQL_PRODUCT_UPDATE, <<product_id, new_price>>,
              <<"Product id=", IntStr(product_id[1]), " updated.">>, "none", TRUE, TRUE)

\* update: the UPDATE and its bound parameters, commit, close
ProductUpdate(product_id, new_price) ==
    Statement(SQL_PRODUCT_UPDATE, <<new_price, product_id>>,
              <<"Product id=", IntStr(product_id[1]), " updated.">>, "none", TRUE, TRUE)

\* delete by id: the DELETE and its bound parameter, commit; the connection stays open
ProductDeleteById(product_id) ==
    Statement(SQL_PRODUCT_DELETE_ID, <<product_id>>, <<"Deleted product.">>,
              "none", TRUE, FALSE)

\* a DELETE built by putting the name into the statement text
ProductDeleteByNameInText(name) ==
    Statement("DELETE FROM products WHERE name = '" \o name[1] \o "'", <<>>,
              <<"Deleted product.">>, "none", TRUE, FALSE)

\* delete by name: the DELETE and its bound parameter, commit; the connection stays open
ProductDeleteByName(name) ==
    Statement(SQL_PRODUCT_DELETE_NAME, <<name>>, <<"Deleted product.">>,
              "none", TRUE, FALSE)

\* describe: the columns query, bound to the table name alone, close
ProductDescribe(table_name) ==
    Statement(SQL_PRODUCT_DESCRIBE, <<table_name>>, <<>>, "columns", FALSE, TRUE)

\* the branch postgresql_crud takes
postgresql_plan(operation, name, price, description, limit, product_id, new_price, table_name) ==
    CASE operation = "create" ->
           IF ~TruthyStr(name) \/ price = None
           THEN Rejected("'name' and 'price' required for create.", TRUE)
           ELSE ProductInsert(name, price, description)
      [] operation = "read" -> ProductSelect(limit)
      [] operation = "update" ->
           IF ~TruthyInt(product_id) \/ new_price = None
           THEN Rejected("'product_id' and 'new_price' required for update.", TRUE)
           ELSE ProductUpdate(product_id, new_price)
      [] operation = "delete" ->
           IF ~TruthyInt(product_id) /\ ~TruthyStr(name)
           THEN Rejected("Provide 'product_id' **or** 'name' for delete.", FALSE)
           ELSE IF TruthyInt(product_id)
                THEN ProductDeleteById(product_id)
                ELSE ProductDeleteByName(name)
      [] operation = "describe" ->
           IF ~TruthyStr(table_name)
           THEN Rejected("'table_name' required for describe.", TRUE)
           ELSE ProductDescribe(table_name)
      [] OTHER -> Rejected("Unknown operation '" \o operation \o "'.", TRUE)

\* {"Id": r[0], "Name": r[1], "Email": r[2], "CreatedAt": r[3].isoformat()}
CustomerRecord(r) ==
    [Id |-> r.Id, Name |-> r.Name, Email |-> r.Email, CreatedAt |-> IsoFormat(r.CreatedAt)]

\* {"id": r[0], "name": r[1], "price": float(r[2]), "description": r[3] or ""}
ProductRecord(r) ==
    [id |-> r.id, name |-> r.name, price |-> r.price,
     description |-> IF TruthyStr(r.description) THEN r.description[1] ELSE ""]

\* {"column": r[0], "type": r[1], "nullable": r[2], "max_length": r[3]}
ColumnRecord(c) ==
    [column |-> c.column, type |-> c.type, nullable |-> c.nullable, max_length |-> c.max_length]

\* the "result" of a path: its message, or the list built from the fetched rows
ResultOf(plan, fetched) ==
    CASE plan.fetch = "customers" -> List([i \in 1..Len(fetched) |-> CustomerRecord(fetched[i])])
      [] plan.fetch = "products" -> List([i \in 1..Len(fetched) |-> ProductRecord(fetched[i])])
      [] plan.fetch = "columns" -> List([i \in 1..Len(fetched) |-> ColumnRecord(fetched[i])])
      [] OTHER -> plan.result

\* ------------------------------------------------------- state
VARIABLES
    customers,   \* the rows of Customers (MySQL)
    custSeq,     \* the AUTO_INCREMENT counter of Customers.Id
    products,    \* the committed rows of products (PostgreSQL)
    prodSeq,     \* the SERIAL sequence of products.id
    clock,       \* the stores' CURRENT_TIMESTAMP
    nConns,      \* connections opened so far
    openConns,   \* connections opened and not closed
    call,        \* the arguments of the last finished call
    resp,        \* the record the last finished call returned
    executed,    \* the statements the last finished call executed, with their parameters
    pre,         \* both tables as they were when the last finished call began
    trip,        \* what the last calls on one dispatcher were: error/create, read, delete, read
    pc,          \* concurrent create calls: where each one is
    job,         \* concurrent create calls: the arguments of each
    held,        \* concurrent create calls: the connection each holds
    work,        \* concurrent create calls: the rows each has inserted and not committed
    ret          \* concurrent create calls: the record each returned

vars == <<customers, custSeq, products, prodSeq, clock, nConns, openConns,
          call, resp, executed, pre, trip, pc, job, held, work, ret>>

seqVars == <<call, resp, executed, pre, trip>>

concVars == <<pc, job, held, work, ret>>

Procs == 1..NProcs

\* ------------------------------------------------------- arguments
Operations == {"create", "read", "update", "delete", "describe", "Create"}

NameArgs == {None, Some(""), Some("Widget"), Some("Gizmo")}

CustomerNameArgs == {None, Some(""), Some("Carol")}

EmailArgs == {None, Some(""), Some("new@example.com")}

\* 0 is a price: only None is a missing price
PriceArgs == {None, Some(0)}

DescriptionArgs == {None, Some("text")}

IdArgs == {None, Some(0), Some(1), Some(3)}

LimitArgs == {1, 10}

CustomerTableArgs == {None, Some("Customers"), Some("orders")}

ProductTableArgs == {None, Some("products"), Some("orders")}

\* the arguments of a call; an argument the caller leaves out has its default
Args(tool, operation, name, email, price, description, limit, customer_id, product_id, new_email, new_price, table_name) ==
    [tool |-> tool, operation |-> operation, name |-> name, email |-> email,
     price |-> price, description |-> description, limit |-> limit,
     customer_id |-> customer_id, product_id |-> product_id,
     new_email |-> new_email, new_price |-> new_price, table_name |-> table_name]

NoCall == Args("", "", None, None, None, None, 10, None, None, None, None, None)

CustomerCalls ==
    {Args("sqlserver", "create", n, e, None, None, 10, None, None, None, None, None) :
        n \in CustomerNameArgs, e \in EmailArgs}
    \cup {Args("sqlserver", "read", None, None, None, None, l, None, None, None, None, None) :
        l \in LimitArgs}
    \cup {Args("sqlserver", "update", None, None, None, None, 10, i, None, e, None, None) :
        i \in IdArgs, e \in EmailArgs}
    \cup {Args("sqlserver", "delete", None, None, None, None, 10, i, None, None, None, None) :
        i \in IdArgs}
    \cup {Args("sqlserver", "describe", None, None, None, None, 10, None, None, None, None, t) :
        t \in CustomerTableArgs}
    \cup {Args("sqlserver", o, None, None, None, None, 10, None, None, None, None, None) :
        o \in Operations \ {"create", "read", "update", "delete", "describe"}}

ProductCalls ==
    {Args("postgresql", "create", n, None, p, d, 10, None, None, None, None, None) :
        n \in NameArgs, p \in PriceArgs, d \in DescriptionArgs}
    \cup {Args("postgresql", "read", None, None, None, None, l, None, None, None, None, None) :
        l \in LimitArgs}
    \cup {Args("postgresql", "update", None, None, None, None, 10, None, i, None, p, None) :
        i \in IdArgs, p \in PriceArgs}
    \cup {Args("postgresql", "delete", n, None, None, None, 10, None, i, None, None, None) :
        n \in NameArgs, i \in IdArgs}
    \cup {Args("postgresql", "describe", None, None, None, None, 10, None, None, None, None, t) :
        t \in ProductTableArgs}
    \cup {Args("postgresql", o, None, None, None, None, 10, None, None, None, None, None) :
        o \in Operations \ {"create", "read", "update", "delete", "describe"}}

\* ------------------------------------------------------- the last calls
Idle == [stage |-> "idle", tool |-> "", base |-> {}, new |-> {}]

\* the delete call c names the created row: by its id, or by its name when
\* product_id is not given
Targets(c, new) ==
    \E r \in new :
        IF c.tool = "sqlserver"
        THEN c.customer_id = Some(r.Id)
        ELSE \/ c.product_id = Some(r.id)
             \/ c.product_id = None /\ c.name = Some(r.name)

TripNext(tr, c, r, before, after) ==
    IF r.sql = None
    THEN [stage |-> "error", tool |-> c.tool, base |-> before, new |-> {}]
    ELSE CASE c.operation = "create" ->
                [stage |-> "create", tool |-> c.tool, base |-> before, new |-> after \ before]
           [] c.operation = "read" ->
                IF tr.tool = c.tool /\ tr.stage \in {"error", "create", "delete"}
                THEN [tr EXCEPT !.stage = tr.stage \o ",read"]
                ELSE Idle
           [] c.operation = "delete" ->
                IF tr.tool = c.tool /\ tr.stage = "create,read" /\ Targets(c, tr.new)
                THEN [tr EXCEPT !.stage = "delete"]
                ELSE Idle
           [] OTHER -> Idle

\* ------------------------------------------------------- Init
Init ==
    /\ customers = SeedCustomers
    /\ custSeq = 3
    /\ products = SeedProducts
    /\ prodSeq = 3
    /\ clock = 1
    /\ nConns = 0
    /\ openConns = {}
    /\ call = NoCall
    /\ resp = [sql |-> None, result |-> Str(<<>>)]
    /\ executed = <<>>
    /\ pre = [customers |-> SeedCustomers, products |-> SeedProducts]
    /\ trip = Idle
    /\ pc = [p \in Procs |-> "idle"]
    /\ job = [p \in Procs |-> NoCall]
    /\ held = [p \in Procs |-> None]
    /\ work = [p \in Procs |-> {}]
    /\ ret = [p \in Procs |-> None]

\* ------------------------------------------------------- one call, start to return
sqlserver_crud(operation, name, email, limit, customer_id, new_email, table_name) ==
    LET cnxn == [id |-> nConns + 1, store |-> "mysql"]
        plan == sqlserver_plan(operation, name, email, limit, customer_id, new_email,
                              table_name)
        out == IF plan.sql = None
               THEN [rows |-> customers, seq |-> custSeq, fetch |-> <<>>]
               ELSE MySqlExecute(plan.sql[1], plan.params, customers, custSeq, clock)
    IN /\ nConns < MaxCalls
       /\ nConns' = nConns + 1
       /\ clock' = clock + 1
       /\ openConns' = IF plan.close THEN openConns ELSE openConns \cup {cnxn}
       /\ customers' = out.rows
       /\ custSeq' = out.seq
       /\ executed' = IF plan.sql = None THEN <<>>
                      ELSE <<[sql |-> plan.sql[1], params |-> plan.params]>>
       /\ resp' = [sql |-> plan.sql, result |-> ResultOf(plan, out.fetch)]
       /\ call' = Args("sqlserver", operation, name, email, None, None, limit, customer_id,
                       None, new_email, None, table_name)
       /\ pre' = [customers |-> customers, products |-> products]
       /\ trip' = TripNext(trip, call', resp', customers, customers')
       /\ UNCHANGED <<products, prodSeq>>
       /\ UNCHANGED concVars

postgresql_crud(operation, name, price, description, limit, product_id, new_price, table_name) ==
    LET cnxn == [id |-> nConns + 1, store |-> "postgresql"]
        plan == postgresql_plan(operation, name, price, description, limit, product_id,
                                new_price, table_name)
        out == IF plan.sql = None
               THEN [rows |-> products, seq |-> prodSeq, fetch |-> <<>>]
               ELSE PgExecute(plan.sql[1], plan.params, products, prodSeq)
    IN /\ nConns < MaxCalls
       /\ nConns' = nConns + 1
       /\ clock' = clock + 1
       /\ openConns' = IF plan.close THEN openConns ELSE openConns \cup {cnxn}
       /\ products' = IF plan.commit THEN out.rows ELSE products
       /\ prodSeq' = out.seq
       /\ executed' = IF plan.sql = None THEN <<>>
                      ELSE <<[sql |-> plan.sql[1], params |-> plan.params]>>
       /\ resp' = [sql |-> plan.sql, result |-> ResultOf(plan, out.fetch)]
       /\ call' = Args("postgresql", operation, name, None, price, description, limit, None,
                       product_id, None, new_price, table_name)
       /\ pre' = [customers |-> customers, products |-> products]
       /\ trip' = TripNext(trip, call', resp', products, products')
       /\ UNCHANGED <<customers, custSeq>>
       /\ UNCHANGED concVars

CustomerCall ==
    \E c \in CustomerCalls :
        sqlserver_crud(c.operation, c.name, c.email, c.limit, c.customer_id, c.new_email,
                       c.table_name)

ProductCall ==
    \E c \in ProductCalls :
        postgresql_crud(c.operation, c.name, c.price, c.description, c.limit, c.product_id,
                        c.new_price, c.table_name)

Next == CustomerCall \/ ProductCall

Spec == Init /\ [][Next]_vars

\* ------------------------------------------------------- concurrent create calls
\* the create calls that pass validation
ValidCreates ==
    {c \in CustomerCalls :
        c.operation = "create"
        /\ sqlserver_plan(c.operation, c.name, c.email, c.limit, c.customer_id,
                          c.new_email, c.table_name).sql # None}
    \cup {c \in ProductCalls :
        c.operation = "create"
        /\ postgresql_plan(c.operation, c.name, c.price, c.description, c.limit,
                           c.product_id, c.new_price, c.table_name).sql # None}

PlanOf(c) ==
    IF c.tool = "sqlserver"
    THEN sqlserver_plan(c.operation, c.name, c.email, c.limit, c.customer_id, c.new_email,
                        c.table_name)
    ELSE postgresql_plan(c.operation, c.name, c.price, c.description, c.limit, c.product_id,
                         c.new_price, c.table_name)

\* cnxn = get_mysql_conn() / get_pg_conn(); cur = cnxn.cursor()
CreateConnect(p, c) ==
    /\ pc[p] = "idle"
    /\ pc' = [pc EXCEPT ![p] = "connected"]
    /\ job' = [job EXCEPT ![p] = c]
    /\ held' = [held EXCEPT ![p] =
                    Some([id |-> nConns + 1,
                          store |-> IF c.tool = "sqlserver" THEN "mysql" ELSE "postgresql"])]
    /\ openConns' = openConns \cup {held'[p][1]}
    /\ nConns' = nConns + 1
    /\ clock' = clock + 1
    /\ UNCHANGED <<customers, custSeq, products, prodSeq, work, ret>>
    /\ UNCHANGED seqVars

\* cur.execute(sql_query, (...)): MySQL commits at once (autocommit=True), the
\* PostgreSQL row stays in the call's transaction
CreateExecute(p) ==
    /\ pc[p] = "connected"
    /\ pc' = [pc EXCEPT ![p] = "executed"]
    /\ LET plan == PlanOf(job[p])
       IN IF job[p].tool = "sqlserver"
          THEN LET out == MySqlExecute(plan.sql[1], plan.params, customers, custSeq, clock)
               IN /\ customers' = out.rows
                  /\ custSeq' = out.seq
                  /\ UNCHANGED <<products, prodSeq, work>>
          ELSE LET out == PgExecute(plan.sql[1], plan.params, products, prodSeq)
               IN /\ work' = [work EXCEPT ![p] = out.rows \ products]
                  /\ prodSeq' = out.seq
                  /\ UNCHANGED <<customers, custSeq, products>>
    /\ UNCHANGED <<clock, nConns, openConns, job, held, ret>>
    /\ UNCHANGED seqVars

\* cnxn.commit()
CreateCommit(p) ==
    /\ pc[p] = "executed"
    /\ pc' = [pc EXCEPT ![p] = "committed"]
    /\ products' = products \cup work[p]
    /\ work' = [work EXCEPT ![p] = {}]
    /\ UNCHANGED <<customers, custSeq, prodSeq, clock, nConns, openConns, job, held, ret>>
    /\ UNCHANGED seqVars

\* cnxn.close() where the path has it, then return {"sql": ..., "result": ...}
CreateReturn(p) ==
    /\ pc[p] = "committed"
    /\ pc' = [pc EXCEPT ![p] = "returned"]
    /\ LET plan == PlanOf(job[p])
       IN /\ openConns' = IF plan.close THEN openConns \ {held[p][1]} ELSE openConns
          /\ held' = [held EXCEPT ![p] = IF plan.close THEN None ELSE held[p]]
          /\ ret' = [ret EXCEPT ![p] = Some([sql |-> plan.sql, result |-> ResultOf(plan, <<>>)])]
    /\ UNCHANGED <<customers, custSeq, products, prodSeq, clock, nConns, job, work>>
    /\ UNCHANGED seqVars

ConcNext ==
    \E p \in Procs :
        \/ \E c \in ValidCreates : CreateConnect(p, c)
        \/ CreateExecute(p)
        \/ CreateCommit(p)
        \/ CreateReturn(p)

ConcSpec == Init /\ [][ConcNext]_vars

\* ======================================================= properties
Called == call.tool # ""

TableNow(tool) == IF tool = "sqlserver" THEN customers ELSE products

TableBefore(tool) == IF tool = "sqlserver" THEN pre.customers ELSE pre.products

CallsOf(tool) == IF tool = "sqlserver" THEN CustomerCalls ELSE ProductCalls

KnownOperations == {"create", "read", "update", "delete", "describe"}

\* the call lacks a parameter its operation requires
LacksRequired(c) ==
    IF c.tool = "sqlserver"
    THEN CASE c.operation = "create" -> ~TruthyStr(c.name) \/ ~TruthyStr(c.email)
           [] c.operation = "update" -> ~TruthyInt(c.customer_id) \/ ~TruthyStr(c.new_email)
           [] c.operation = "delete" -> ~TruthyInt(c.customer_id)
           [] c.operation = "describe" -> ~TruthyStr(c.table_name)
           [] OTHER -> FALSE
    ELSE CASE c.operation = "create" -> ~TruthyStr(c.name) \/ c.price = None
           [] c.operation = "update" -> ~TruthyInt(c.product_id) \/ c.new_price = None
           [] c.operation = "delete" -> ~TruthyInt(c.product_id) /\ ~TruthyStr(c.name)
           [] c.operation = "describe" -> ~TruthyStr(c.table_name)
           [] OTHER -> FALSE

Invalid(c) == c.operation \notin KnownOperations \/ LacksRequired(c)

\* what a read of a table with these rows returns
ReadOf(tool, rows) ==
    IF tool = "sqlserver"
    THEN LET s == CustomersOrderById(rows)
         IN List([i \in 1..Len(s) |-> CustomerRecord(s[i])])
    ELSE LET s == ProductsOrderById(rows)
         IN List([i \in 1..Len(s) |-> ProductRecord(s[i])])

\* C1: every call closes the connection it opened before it returns, on every
\* exit path, so between calls no connection is open.
C1_ConnectionsReleased == Called => openConns = {}

\* the columns of the table of that name in the configured database / schema
ConfiguredColumns(tool, table_name) ==
    IF tool = "sqlserver"
    THEN SelectSeq(MySqlColumns, LAMBDA c : c.schema = MYSQL_DB /\ c.table = table_name)
    ELSE SelectSeq(PgColumns, LAMBDA c : c.schema = PG_SCHEMA /\ c.table = table_name)

\* C2: describe(table_name) returns only column records of the table of that name
\* in the configured database / schema (none when the name exists only elsewhere).
C2_DescribeScoped ==
    (call.operation = "describe" /\ resp.sql # None) =>
        LET own == ConfiguredColumns(call.tool, call.table_name[1])
        IN \A i \in 1..Len(resp.result.val) :
              \E j \in 1..Len(own) : resp.result.val[i] = ColumnRecord(own[j])

\* which key a Product delete uses
KeyKind(c) ==
    IF c.tool = "postgresql" /\ c.operation = "delete"
    THEN IF TruthyInt(c.product_id) THEN "id" ELSE "name"
    ELSE "only"

\* the values a call that executes a statement supplies to it
BoundValues(c) ==
    IF c.tool = "sqlserver"
    THEN CASE c.operation = "create" -> <<c.name, c.email>>
           [] c.operation = "update" -> <<c.new_email, c.customer_id>>
           [] c.operation = "delete" -> <<c.customer_id>>
           [] c.operation = "describe" -> <<Some(MYSQL_DB), c.table_name>>
           [] OTHER -> <<>>
    ELSE CASE c.operation = "create" -> <<c.name, c.price, c.description>>
           [] c.operation = "update" -> <<c.new_price, c.product_id>>
           [] c.operation = "delete" ->
                IF KeyKind(c) = "id" THEN <<c.product_id>> ELSE <<c.name>>
           [] c.operation = "describe" -> <<c.table_name>>
           [] OTHER -> <<>>

\* C3: the statement text a call executes and returns as `sql` is the same for
\* every call of that dispatcher with the same operation (and the same key kind
\* of a Product delete) that executes a statement, whatever values it is given;
\* the values are the statement's bound parameters.
C3_SqlTextIndependentOfValues ==
    (Called /\ resp.sql # None) =>
        /\ \A c \in CallsOf(call.tool) :
              (c.operation = call.operation /\ KeyKind(c) = KeyKind(call)
               /\ PlanOf(c).sql # None) => PlanOf(c).sql = resp.sql
        /\ Len(executed) = 1
        /\ executed[1].sql = resp.sql[1]
        /\ Len(executed[1].params) = Len(BoundValues(call))
        /\ executed[1].params = BoundValues(call)

C3_Witness ==
    /\ call.tool = "postgresql" /\ call.operation = "delete"
    /\ call.product_id = None /\ resp.sql # None
    /\ products # pre.products

\* C4: a call with an unknown operation or without a required parameter returns
\* sql = null and a result that starts with the error marker, executes no
\* statement and changes no table; a read that follows returns the rows the
\* table had before the call.
C4_InvalidCallRejected ==
    /\ (Called /\ Invalid(call)) =>
          /\ resp.sql = None
          /\ resp.result.type = "str"
          /\ Len(resp.result.val) >= 1
          /\ resp.result.val[1] = ErrMark
          /\ executed = <<>>
          /\ customers = pre.customers
          /\ products = pre.products
    /\ trip.stage \in {"error", "error,read"} => TableNow(trip.tool) = trip.base
    /\ trip.stage = "error,read" => resp.result = ReadOf(trip.tool, trip.base)

C4_Witness ==
    /\ trip.stage = "error,read"
    /\ Len(resp.result.val) >= 2

C4_WitnessUnknownOperation ==
    /\ call.operation = "Create" /\ call.tool = "postgresql" /\ resp.sql = None

\* C5: a create call with its required fields inserts exactly one row, with the
\* supplied values and an id greater than every id the table had, changes no
\* other row, and a read that follows includes the new row.
C5_CreateInsertsOneRow ==
    /\ (Called /\ call.operation = "create" /\ ~Invalid(call)) =>
          LET before == TableBefore(call.tool)
              after == TableNow(call.tool)
          IN /\ resp.sql # None
             /\ before \subseteq after
             /\ Cardinality(after \ before) = 1
             /\ \A r \in after \ before :
                   IF call.tool = "sqlserver"
                   THEN /\ r.Name = call.name[1]
                        /\ r.Email = call.email[1]
                        /\ \A o \in before : o.Id < r.Id
                   ELSE /\ r.name = call.name[1]
                        /\ r.price = call.price[1]
                        /\ r.description = call.description
                        /\ \A o \in before : o.id < r.id
    /\ trip.stage = "create,read" =>
          \A r \in trip.new :
              \E i \in 1..Len(resp.result.val) :
                  resp.result.val[i] = (IF trip.tool = "sqlserver" THEN CustomerRecord(r)
                                        ELSE ProductRecord(r))

C5_Witness ==
    /\ trip.stage = "create,read"
    /\ trip.tool = "postgresql"
    /\ trip.new # {}
    /\ Cardinality(products) < prodSeq - 1

\* C6: read returns every row of the table, in strictly ascending id order,
\* whatever `limit` is; it changes no table; a null description is rendered "".
C6_ReadReturnsWholeTable ==
    (Called /\ call.operation = "read") =>
        LET out == resp.result.val
            rows == TableNow(call.tool)
        IN /\ resp.result.type = "list"
           /\ customers = pre.customers
           /\ products = pre.products
           /\ Len(out) = Cardinality(rows)
           /\ IF call.tool = "sqlserver"
              THEN /\ \A i, j \in 1..Len(out) : i < j => out[i].Id < out[j].Id
                   /\ \A r \in rows : \E i \in 1..Len(out) :
                         /\ out[i].Id = r.Id
                         /\ out[i].Name = r.Name
                         /\ out[i].Email = r.Email
              ELSE /\ \A i, j \in 1..Len(out) : i < j => out[i].id < out[j].id
                   /\ \A r \in rows : \E i \in 1..Len(out) :
                         /\ out[i].id = r.id
                         /\ out[i].name = r.name
                         /\ out[i].price = r.price
                         /\ out[i].description =
                               (IF r.description = None THEN "" ELSE r.description[1])

C6_Witness ==
    /\ call.operation = "read" /\ call.tool = "postgresql"
    /\ call.limit < Cardinality(products)
    /\ \E r \in products : r.description = None

\* C7: update with an id and a new value changes only the targeted field of the
\* row with that id; every other field and row is unchanged and no row is added
\* or removed; when no row has the id the success message naming the id is
\* still returned and the table is unchanged.
C7_UpdateChangesOneField ==
    (Called /\ call.operation = "update" /\ ~Invalid(call)) =>
        /\ resp.sql # None
        /\ resp.result.type = "str"
        /\ resp.result.val[1] = OkMark
        /\ IF call.tool = "sqlserver"
           THEN /\ \E i \in 2..Len(resp.result.val) :
                      resp.result.val[i] = IntStr(call.customer_id[1])
                /\ customers = {IF r.Id = call.customer_id[1]
                                THEN [r EXCEPT !.Email = call.new_email[1]] ELSE r :
                                r \in pre.customers}
                /\ Cardinality(customers) = Cardinality(pre.customers)
                /\ products = pre.products
           ELSE /\ \E i \in 2..Len(resp.result.val) :
                      resp.result.val[i] = IntStr(call.product_id[1])
                /\ products = {IF r.id = call.product_id[1]
                               THEN [r EXCEPT !.price = call.new_price[1]] ELSE r :
                               r \in pre.products}
                /\ Cardinality(products) = Cardinality(pre.products)
                /\ customers = pre.customers

C7_Witness ==
    /\ call.operation = "update" /\ call.tool = "postgresql" /\ resp.sql # None
    /\ products # pre.products

C7_WitnessNoSuchRow ==
    /\ call.operation = "update" /\ call.tool = "sqlserver" /\ resp.sql # None
    /\ \A r \in pre.customers : r.Id # call.customer_id[1]

\* the rows a delete call identifies: by id when an id is given, else by name
Identified(c, rows) ==
    IF c.tool = "sqlserver"
    THEN {r \in rows : r.Id = c.customer_id[1]}
    ELSE IF KeyKind(c) = "id"
         THEN {r \in rows : r.id = c.product_id[1]}
         ELSE {r \in rows : r.name = c.name[1]}

\* C8: a delete call removes no more than one row, the one its key identifies
\* (the id when given, the name only without an id), and leaves every other row
\* unchanged.
C8_DeleteAtMostOneRow ==
    (Called /\ call.operation = "delete" /\ ~Invalid(call)) =>
        LET before == TableBefore(call.tool)
            after == TableNow(call.tool)
        IN /\ after \subseteq before
           /\ before \ after = Identified(call, before)
           /\ Cardinality(before \ after) <= 1

\* C9: create, read, delete of the entity just created (by its id, or by its
\* name when no product_id is given), read: the table has exactly the rows it
\* had before the create.
C9_RoundTrip ==
    /\ trip.stage \in {"delete", "delete,read"} => TableNow(trip.tool) = trip.base
    /\ trip.stage = "delete,read" => resp.result = ReadOf(trip.tool, trip.base)

\* ------------------------------------------------------- concurrent creates
ProcsOf(tool) == {p \in Procs : pc[p] # "idle" /\ job[p].tool = tool}

AllReturned == \A p \in Procs : pc[p] = "returned"

\* C10: when N concurrent valid create calls on a dispatcher have all returned,
\* each has returned the success result and the table has N new rows with N
\* distinct ids, one for each call's values.
C10_ConcurrentCreates ==
    /\ \A p \in Procs : pc[p] = "returned" =>
          /\ ret[p] # None
          /\ ret[p][1].sql # None
          /\ ret[p][1].result.val[1] = OkMark
    /\ AllReturned =>
          LET newC == customers \ SeedCustomers
              newP == products \ SeedProducts
          IN /\ SeedCustomers \subseteq customers
             /\ SeedProducts \subseteq products
             /\ Cardinality(newC) = Cardinality(ProcsOf("sqlserver"))
             /\ Cardinality(CustomerIds(newC)) = Cardinality(ProcsOf("sqlserver"))
             /\ CustomerIds(newC) \cap CustomerIds(SeedCustomers) = {}
             /\ Cardinality(newP) = Cardinality(ProcsOf("postgresql"))
             /\ Cardinality(ProductIds(newP)) = Cardinality(ProcsOf("postgresql"))
             /\ ProductIds(newP) \cap ProductIds(SeedProducts) = {}
             /\ \A c \in ValidCreates :
                   LET n == Cardinality({p \in Procs : job[p] = c})
                   IN IF c.tool = "sqlserver"
                      THEN Cardinality({r \in newC : r.Name = c.name[1]
                                                     /\ r.Email = c.email[1]}) = n
                      ELSE Cardinality({r \in newP : r.name = c.name[1]
                                                     /\ r.price = c.price[1]
                                                     /\ r.description = c.description}) = n

C10_Witness ==
    /\ AllReturned
    /\ \A p \in Procs : job[p].tool = "postgresql"
    /\ \E p, q \in Procs : p # q /\ job[p] = job[q]
====
